---- MODULE Spec2Model ----
(***************************************************************************)
(* record_filter_t of clients/drcachesim/tools/filter/record_filter.cpp:   *)
(* the per-shard record filter, its encoding cache, its chunk handling and *)
(* its stop-timestamp gate, as a state machine over the tool's fields.     *)
(***************************************************************************)
EXTENDS Integers, Sequences, FiniteSets, TLC

(* ----------------------------- bounds ---------------------------------- *)
\* Largest number of entries handed to parallel_shard_memref of one shard.
MaxRecords == 3
\* Instruction addresses are 1..NumAddrs.
NumAddrs == 2
\* Largest value entry_memref_count returns for one entry.
MaxCount == 2
\* Largest number of configured filters.
MaxFilters == 2
\* A write failure may hit the 1st .. MaxFailPoint-th write of one call.
MaxFailPoint == 3
\* Values of chunk-footer markers of the input range over 0..MaxChunk.
MaxChunk == 1
\* Width of addr_t in the model.
AddrBits == 14

AddrMod == 2 ^ AddrBits

ShardIds == {0}
\* Timestamps, and the values of the stop timestamp: the gate only compares
\* the two, so a value below and a value at the threshold cover it.
Timestamps == {0, 1}
Addrs == 1..NumAddrs

(* ------------------------- trace entries -------------------------------- *)
\* trace_entry_t {type, size, addr}; idx is bookkeeping only: the ordinal of
\* the input entry the record is (0 for a synthesized record).
Entry(t, sz, a, i) == [type |-> t, size |-> sz, addr |-> a, idx |-> i]

OFFLINE_FILE_TYPE_BIMODAL_FILTERED_WARMUP == 4096

Payload(e) == [type |-> e.type, size |-> e.size, addr |-> e.addr]

type_is_instr(type) == type = "INSTR"

is_any_instr_type_noNoFetch(type) ==
    type_is_instr(type) \/ type = "INSTR_MAYBE_FETCH"

is_any_instr_type(type) ==
    type_is_instr(type) \/ type = "INSTR_MAYBE_FETCH" \/ type = "INSTR_NO_FETCH"

\* The synthetic marker of the gate; it has no input entry.
filter_boundary_entry == Entry("MARKER", "FILTER_ENDPOINT", 0, 0)

\* addr_t arithmetic is unsigned and wraps.
SubAddr(a, b) == (a - b) % AddrMod

BitSet(v, flag) == (v \div flag) % 2 = 1
OrFlag_keep(v, flag) == v

OrFlag_clobber(v, flag) == flag

OrFlag(v, flag) == IF BitSet(v, flag) THEN v ELSE v + flag

\* std::setfill('0') << std::setw(4) << ordinal: the decimal digits, padded
\* on the left with zeros to at least four.
RECURSIVE Digits(_)
Digits(n) == IF n < 10 THEN <<n>> ELSE Append(Digits(n \div 10), n % 10)

RECURSIVE PadLeft(_, _)
PadLeft(ds, w) == IF Len(ds) >= w THEN ds ELSE PadLeft(<<0>> \o ds, w)

ChunkName(ordinal) == <<"chunk.">> \o PadLeft(Digits(ordinal), 4)

(* ------------------------------ state ----------------------------------- *)
VARIABLES
    filters_,          \* number of configured filters (the vector's size)
    stop_timestamp_,   \* configured threshold, 0 = no gate
    success_,          \* the tool's global success flag
    shard_map_,        \* registry: the registered shard indices
    sh,                \* per_shard_t of every shard index
    gh,                \* per shard: the sink's content summary and history sums
    call               \* the most recent call and what it did

vars == <<filters_, stop_timestamp_, success_, shard_map_, sh, gh, call>>

NoShard == [life |-> "none"]

NoCall == [op |-> "none"]

\* per_shard_t right after `new per_shard_t`.
NewShard ==
    [life |-> "new",
     writer |-> "null",              \* which of file_writer/archive_writer is set
     error |-> "",
     enabled |-> TRUE,
     input_entry_count |-> 0,
     output_entry_count |-> 0,
     filter_shard_data |-> <<>>,     \* per filter: the state its init returned
     chunk_ordinal |-> 0,
     removed_from_prev_chunk |-> 0,
     last_encoding |-> <<>>,
     delayed_encodings |-> <<>>]     \* map addr -> encodings, as a function

NewGhost ==
    [components |-> <<>>,   \* archive components opened so far, in order
     footers |-> 0,         \* chunk footers written to the sink
     inUnits |-> 0,         \* sum of entry_memref_count over the input so far
     outUnits |-> 0,        \* the same sum over the records written
     removed |-> 0,         \* units dropped since the last ordinal marker
     emitted |-> {},        \* idx of the encoding records written
     run |-> <<>>,          \* encodings of the input since its last instruction
     pure |-> TRUE,         \* the input held only instructions and kept encodings
     fresh |-> <<>>,        \* while pure: per address, the encodings supplied
                            \* for it that no surviving occurrence has used
     supplied |-> {},       \* addresses with an encoding right before an
                            \* occurrence somewhere in the input
     endpoints |-> 0,       \* synthesized filter-endpoint markers written
     lastOut |-> 0,         \* idx of the last record written that is neither
                            \* an encoding nor synthesized
     encIn |-> <<>>,        \* the encoding records of the input, by idx
     released |-> 0,        \* how often a sink of the shard was released
     passed |-> 0,          \* calls of parallel_shard_memref on the shard
     wrote |-> 0]           \* records its sink accepted

Init ==
    /\ filters_ \in 0..MaxFilters
    /\ stop_timestamp_ \in Timestamps
    /\ success_ = TRUE
    /\ shard_map_ = {}
    /\ sh = [s \in ShardIds |-> NoShard]
    /\ gh = [s \in ShardIds |-> NewGhost]
    /\ call = NoCall

(* ------------------------- the sink and writes -------------------------- *)
\* The running state of one call: the shard, what the call wrote so far, the
\* filters it invoked, the components it opened, the value it returns, and
\* whether it cleared success_.  failAt = k > 0 makes the k-th write of the
\* call fail; 0 makes none fail.  shared lists the call's assignments to the
\* members all shards share, each with whether shard_map_mutex_ was held.
Ctx(shard, failAt) ==
    [sh |-> shard, written |-> <<>>, invoked |-> <<>>, opened |-> <<>>,
     attempts |-> 0, failAt |-> failAt, ok |-> TRUE, output |-> TRUE,
     clearedSuccess |-> FALSE, shared |-> <<>>]

\* success_ = false, at a point where no lock_guard is in scope.
clear_success(c) ==
    [c EXCEPT !.clearedSuccess = TRUE,
              !.shared = Append(@, [var |-> "success_", locked |-> FALSE])]

write_trace_entry_nocount(c, entry) ==
    LET c1 == [c EXCEPT !.attempts = @ + 1]
    IN  IF c1.attempts = c.failAt
        THEN [c1 EXCEPT !.sh.error = "Failed to write to output file",
                        !.clearedSuccess = TRUE,
                        !.ok = FALSE]
        ELSE [c1 EXCEPT !.written = Append(@, entry),
                        !.ok = TRUE]

write_trace_entry_dup(c, entry) ==
    LET c1 == [c EXCEPT !.attempts = @ + 1]
    IN  IF c1.attempts = c.failAt
        THEN [c1 EXCEPT !.sh.error = "Failed to write to output file",
                        !.clearedSuccess = TRUE,
                        !.ok = FALSE]
        ELSE [c1 EXCEPT !.written = @ \o <<entry, entry>>,
                        !.sh.output_entry_count = @ + 1,
                        !.ok = TRUE]

write_trace_entry(c, entry) ==
    LET c1 == [c EXCEPT !.attempts = @ + 1]
    IN  IF c1.attempts = c.failAt
        THEN clear_success(
                 [c1 EXCEPT !.sh.error = "Failed to write to output file",
                            !.ok = FALSE])
        ELSE [c1 EXCEPT !.written = Append(@, entry),
                        !.sh.output_entry_count = @ + 1,
                        !.ok = TRUE]

write_trace_entries_none(c, entries) == [c EXCEPT !.ok = TRUE]

RECURSIVE write_trace_entries_reversed(_, _)
write_trace_entries_reversed(c, entries) ==
    IF entries = <<>>
    THEN [c EXCEPT !.ok = TRUE]
    ELSE LET c1 == write_trace_entry(c, entries[Len(entries)])
         IN  IF ~c1.ok THEN c1
             ELSE write_trace_entries_reversed(
                      c1, SubSeq(entries, 1, Len(entries) - 1))

RECURSIVE write_trace_entries(_, _)
write_trace_entries(c, entries) ==
    IF entries = <<>>
    THEN [c EXCEPT !.ok = TRUE]
    ELSE LET c1 == write_trace_entry(c, Head(entries))
         IN  IF ~c1.ok THEN c1 ELSE write_trace_entries(c1, Tail(entries))

\* archive_ostream_t::open_new_component: openErr is what the archive returns.
open_new_chunk(c, openErr) ==
    IF openErr = ""
    THEN [c EXCEPT !.opened = Append(@, ChunkName(c.sh.chunk_ordinal)), !.ok = TRUE]
    ELSE [c EXCEPT !.ok = FALSE]

\* suffix is the end of the stream name; the result is the context with the
\* writer set and ok = (the returned string is empty).
get_writer(c, suffix, openErr) ==
    IF suffix = ".gz"
    THEN [c EXCEPT !.sh.writer = "file", !.ok = TRUE]
    ELSE IF suffix = ".zip"
    THEN open_new_chunk([c EXCEPT !.sh.writer = "archive"], openErr)
    ELSE [c EXCEPT !.sh.writer = "file", !.ok = TRUE]

(* --------------------- parallel_shard_init_stream ------------------------ *)
\* The loop over filters_: initErr[i] is the filter's error string after its
\* parallel_shard_init.
RECURSIVE InitFilters(_, _, _)
InitFilters(c, i, initErr) ==
    IF i > filters_
    THEN c
    ELSE LET c1 == [c EXCEPT !.sh.filter_shard_data = Append(@, i)]
             c2 == IF initErr[i] # ""
                   THEN clear_success(
                            [c1 EXCEPT !.sh.error =
                                 "Failure in initializing filter function "
                                 \o initErr[i]])
                   ELSE c1
         IN  InitFilters(c2, i + 1, initErr)

parallel_shard_init_stream(suffix, openErr, initErr) ==
    LET c0 == get_writer(Ctx(NewShard, 0), suffix, openErr)
    IN  IF ~c0.ok
        THEN clear_success(
                 [c0 EXCEPT !.sh.error = "Failure in opening writer: " \o openErr,
                            !.sh.life = "unopened"])
        ELSE InitFilters([c0 EXCEPT !.sh.life = "ready"], 1, initErr)

\* What f->get_error_string() returns after a filter's parallel_shard_init:
\* empty, or one of two messages.
FilterErrs == {"", "bad", "worse"}

\* One call of parallel_shard_init_stream for shard index s.
InitStream(s, suffix, openErr, initErr) ==
    /\ sh[s].life = "none"
    /\ call.op = "none"
    /\ LET c == parallel_shard_init_stream(suffix, openErr, initErr)
       IN  /\ sh' = [sh EXCEPT ![s] = c.sh]
           /\ success_' = (success_ /\ ~c.clearedSuccess)
           \* shard_map_[shard_index] = per_shard is reached only past the
           \* two early returns.
           /\ shard_map_' = IF c.sh.life = "ready"
                            THEN shard_map_ \cup {s} ELSE shard_map_
           /\ gh' = [gh EXCEPT ![s].components = c.opened]
           /\ call' = [op |-> "init", shard |-> s, ret |-> c.ok,
                       suffix |-> suffix, openErr |-> openErr,
                       initErr |-> initErr,
                       \* std::lock_guard guards the registration alone.
                       shared |-> IF c.sh.life = "ready"
                                  THEN Append(c.shared, [var |-> "shard_map_",
                                                         locked |-> TRUE])
                                  ELSE c.shared]
    /\ UNCHANGED <<filters_, stop_timestamp_>>

ShardInit(s) ==
    \E suffix \in {".gz", ".zip", ".bin"}, initErr \in [1..filters_ -> FilterErrs] :
      \E openErr \in (IF suffix = ".zip" THEN {"", "cannot open"} ELSE {""}) :
        InitStream(s, suffix, openErr, initErr)

(* ------------------------ parallel_shard_memref -------------------------- *)
\* std::unordered_map as a function on its keys: m[k] = v, m.erase(k), and
\* the insertion of an empty value that reading m[k] of a missing key makes.
map_assign_lost(m, k, v) == m

map_assign(m, k, v) == [x \in DOMAIN m \cup {k} |-> IF x = k THEN v ELSE m[x]]

map_erase_nothing(m, k) == m

map_erase(m, k) == [x \in DOMAIN m \ {k} |-> m[x]]

map_index(m, k) == [x \in DOMAIN m \cup {k} |-> IF x \in DOMAIN m THEN m[x] ELSE <<>>]

Fail_silent(c, msg) == [c EXCEPT !.ok = FALSE]

Fail(c, msg) == [c EXCEPT !.sh.error = msg, !.ok = FALSE]

\* Lines 250-255: dec[i] is what filter i's parallel_shard_filter returns.
RECURSIVE FilterLoop_shortCircuit(_, _, _)
FilterLoop_shortCircuit(c, i, dec) ==
    IF i > filters_ \/ ~c.output
    THEN c
    ELSE LET c1 == [c EXCEPT !.invoked =
                        Append(@, [filter |-> i, data |-> c.sh.filter_shard_data[i]])]
             c2 == IF ~dec[i] THEN [c1 EXCEPT !.output = FALSE] ELSE c1
         IN  FilterLoop_shortCircuit(c2, i + 1, dec)

RECURSIVE FilterLoop(_, _, _)
FilterLoop(c, i, dec) ==
    IF i > filters_
    THEN c
    ELSE LET c1 == [c EXCEPT !.invoked =
                        Append(@, [filter |-> i, data |-> c.sh.filter_shard_data[i]])]
             c2 == IF ~dec[i] THEN [c1 EXCEPT !.output = FALSE] ELSE c1
         IN  FilterLoop(c2, i + 1, dec)

\* Lines 315-356.
EncodingStage(c, entry) ==
    IF ~c.output
    THEN IF is_any_instr_type(entry.type) /\ c.sh.last_encoding # <<>>
         THEN [c EXCEPT !.sh.delayed_encodings =
                            map_assign(@, entry.addr, c.sh.last_encoding),
                        !.sh.last_encoding = <<>>]
         ELSE c
    ELSE IF entry.type = "ENCODING"
    THEN [c EXCEPT !.sh.last_encoding = Append(@, entry)]
    ELSE IF is_any_instr_type(entry.type)
    THEN IF c.sh.last_encoding # <<>>
         THEN LET c1 == write_trace_entries(c, c.sh.last_encoding)
              IN  IF ~c1.ok
                  THEN c1
                  ELSE write_trace_entry(
                           [c1 EXCEPT !.sh.last_encoding = <<>>,
                                      !.sh.delayed_encodings = map_erase(@, entry.addr)],
                           entry)
         ELSE LET c0 == [c EXCEPT !.sh.delayed_encodings = map_index(@, entry.addr)]
              IN  IF c0.sh.delayed_encodings[entry.addr] # <<>>
                  THEN LET c1 == write_trace_entries(
                                     c0, c0.sh.delayed_encodings[entry.addr])
                       IN  IF ~c1.ok
                           THEN c1
                           ELSE write_trace_entry(
                                    [c1 EXCEPT !.sh.delayed_encodings =
                                                   map_erase(@, entry.addr)],
                                    entry)
                  ELSE write_trace_entry(c0, entry)
    ELSE write_trace_entry(c, entry)

\* Line 287.
ChunkOrdinalMatches_always(entry, shard) == TRUE

ChunkOrdinalMatches(entry, shard) == entry.addr = shard.chunk_ordinal

\* Lines 271-313, then the rest of the function.
MarkerStage(c, entry, openErr) ==
    IF entry.type = "MARKER" /\ entry.size = "FILETYPE"
    THEN EncodingStage(c,
             IF stop_timestamp_ # 0
             THEN [entry EXCEPT !.addr =
                       OrFlag(@, OFFLINE_FILE_TYPE_BIMODAL_FILTERED_WARMUP)]
             ELSE entry)
    ELSE IF entry.type = "MARKER" /\ entry.size = "CHUNK_FOOTER"
    THEN IF ~c.output
         THEN Fail(c, "Removing chunk footers is not supported")
         ELSE IF c.sh.writer # "archive"
         THEN Fail(c, "Chunks found in non-archive output")
         ELSE IF ~ChunkOrdinalMatches(entry, c.sh)
         THEN Fail(c, "Chunk ordinal mismatch: found " \o ToString(entry.addr)
                       \o " expected " \o ToString(c.sh.chunk_ordinal))
         ELSE LET c1 == write_trace_entry(c, entry)
              IN  IF ~c1.ok
                  THEN c1
                  ELSE LET c2 == open_new_chunk(
                                     [c1 EXCEPT !.sh.chunk_ordinal = @ + 1], openErr)
                       IN  IF ~c2.ok THEN Fail(c2, openErr) ELSE c2
    ELSE IF entry.type = "MARKER" /\ entry.size = "RECORD_ORDINAL"
    THEN IF ~c.output
         THEN Fail(c, "Removing ordinal marker is not supported")
         ELSE EncodingStage(
                  [c EXCEPT !.sh.removed_from_prev_chunk = 0],
                  [entry EXCEPT !.addr = SubAddr(@, c.sh.removed_from_prev_chunk)])
    ELSE EncodingStage(c, entry)

\* Line 267.
AddRemoved_flat(c, record_count) ==
    [c EXCEPT !.sh.removed_from_prev_chunk = @ + 1]

AddRemoved(c, record_count) ==
    [c EXCEPT !.sh.removed_from_prev_chunk = @ + record_count]

\* Lines 249-269.
FilterStage(c, entry, record_count, dec, openErr) ==
    IF c.sh.enabled
    THEN LET c1 == FilterLoop(c, 1, dec)
         IN  IF ~c1.output
             THEN IF is_any_instr_type(entry.type) /\ c1.sh.writer = "archive"
                  THEN Fail(c1, "Removing instructions from archive output is not yet supported")
                  ELSE MarkerStage(AddRemoved(c1, record_count), entry, openErr)
             ELSE MarkerStage(c1, entry, openErr)
    ELSE MarkerStage(c, entry, openErr)

\* Lines 240-241.
GateFires_strict(shard, last_ts) ==
    shard.enabled /\ stop_timestamp_ # 0 /\ last_ts > stop_timestamp_

GateFires(shard, last_ts) ==
    shard.enabled /\ stop_timestamp_ # 0 /\ last_ts >= stop_timestamp_

\* The whole function; last_ts is shard_stream->get_last_timestamp(), read
\* only when the shard is enabled and a stop timestamp is configured.
parallel_shard_memref(shard, input_entry, record_count, last_ts, dec, failAt, openErr) ==
    LET c0 == Ctx([shard EXCEPT !.input_entry_count = @ + 1], failAt)
    IN  IF GateFires(shard, last_ts)
        THEN LET c1 == write_trace_entry(
                           [c0 EXCEPT !.sh.enabled = FALSE],
                           filter_boundary_entry)
             IN  IF ~c1.ok
                 THEN c1
                 ELSE FilterStage(c1, input_entry, record_count, dec, openErr)
        ELSE FilterStage(c0, input_entry, record_count, dec, openErr)

(* ------------------------- parallel_shard_exit --------------------------- *)
\* filter_shard_data[i] of line 190.  The vector holds no element when
\* parallel_shard_init_stream returned before its loop: the read is then out
\* of bounds, and yields whatever lies there.
ShardDataAt(shard, i) ==
    IF i <= Len(shard.filter_shard_data)
    THEN shard.filter_shard_data[i] ELSE "garbage"

\* Lines 189-192: exitOk[i] is what filter i's parallel_shard_exit returns.
RECURSIVE ExitLoop(_, _, _)
ExitLoop(c, i, exitOk) ==
    IF i > filters_
    THEN c
    ELSE LET c1 == [c EXCEPT !.invoked =
                        Append(@, [filter |-> i, data |-> ShardDataAt(c.sh, i)])]
             c2 == IF ~exitOk[i] THEN [c1 EXCEPT !.ok = FALSE] ELSE c1
         IN  ExitLoop(c2, i + 1, exitOk)

\* The whole function: the loop, then both writers reset and writer nulled.
parallel_shard_exit(shard, exitOk) ==
    LET c == ExitLoop(Ctx(shard, 0), 1, exitOk)
    IN  [c EXCEPT !.sh.writer = "null", !.sh.life = "exited"]

(* ----------------------------- print_results ---------------------------- *)
SumOver_one(S, f) == IF S = {} THEN 0 ELSE f[CHOOSE x \in S : TRUE]

RECURSIVE SumOver(_, _)
SumOver(S, f) ==
    IF S = {} THEN 0
    ELSE LET x == CHOOSE y \in S : TRUE
         IN  f[x] + SumOver(S \ {x}, f)

\* The two totals of lines 370-375, over the shards of shard_map_.
print_results(map, shards) ==
    [input |-> SumOver(map, [s \in map |-> shards[s].input_entry_count]),
     output |-> SumOver(map, [s \in map |-> shards[s].output_entry_count])]

(* ----------------------------- the input -------------------------------- *)
\* Fetched instructions at every address, the two other kinds at one each.
InstrPayloads ==
    [type : {"INSTR"}, size : {1}, addr : Addrs]
    \cup {[type |-> "INSTR_MAYBE_FETCH", size |-> 1, addr |-> 1],
          [type |-> "INSTR_NO_FETCH", size |-> 1, addr |-> NumAddrs]}

\* Filetype values: one with the flag clear and a bit above and below it
\* set, one with the flag set.
FiletypeVals == {1 + 2 * OFFLINE_FILE_TYPE_BIMODAL_FILTERED_WARMUP,
                 1 + OFFLINE_FILE_TYPE_BIMODAL_FILTERED_WARMUP}

\* The trace_entry_t values a reader may hand over next; an ordinal marker
\* carries the count of the records of the input before it.
InputPayloads(g) ==
    InstrPayloads
    \cup {[type |-> "ENCODING", size |-> 1, addr |-> 7]}
    \cup {[type |-> "READ", size |-> 1, addr |-> 1]}
    \cup [type : {"MARKER"}, size : {"FILETYPE"}, addr : FiletypeVals]
    \cup [type : {"MARKER"}, size : {"CHUNK_FOOTER"}, addr : 0..MaxChunk]
    \cup [type : {"MARKER"}, size : {"RECORD_ORDINAL"}, addr : {g.inUnits}]
    \cup [type : {"MARKER"}, size : {"FILTER_ENDPOINT"}, addr : {0}]

IsMarker(e, sub) == e.type = "MARKER" /\ e.size = sub

IsFooter(e) == IsMarker(e, "CHUNK_FOOTER")
IsEncoding(e) == e.type = "ENCODING"
IsSynthetic(e) == e.idx = 0

CountFooters(es) == Cardinality({i \in 1..Len(es) : IsFooter(es[i])})
CountSynthetic(es) == Cardinality({i \in 1..Len(es) : IsSynthetic(es[i])})

\* entry_memref_count: nothing for an encoding (it is folded into its
\* instruction), one record for an instruction or a marker, one or more for
\* a data record.
CountInputs(p) ==
    IF p.type = "ENCODING" THEN {0}
    ELSE IF p.type = "READ" THEN 1..MaxCount
    ELSE {1}

\* The records a reader counts among those one call wrote: the synthetic
\* marker is one, the input entry counts record_count, encodings none.
Unit(e, record_count) ==
    IF e.idx = 0 THEN 1
    ELSE IF e.type = "ENCODING" THEN 0
    ELSE record_count

RECURSIVE UnitsWritten(_, _)
UnitsWritten(written, record_count) ==
    IF written = <<>> THEN 0
    ELSE Unit(Head(written), record_count)
         + UnitsWritten(Tail(written), record_count)

(* ------------------------ bookkeeping of the input ---------------------- *)
InstrLike(type) == type \in {"INSTR", "INSTR_MAYBE_FETCH", "INSTR_NO_FETCH"}

With(f, k, v) == [x \in DOMAIN f \cup {k} |-> IF x = k THEN v ELSE f[x]]
Without(f, k) == [x \in DOMAIN f \ {k} |-> f[x]]

\* The encodings the input has supplied for an occurrence at address a that
\* arrives now: those right before it, else the ones left from dropped
\* occurrences.
Supplied(g, a) ==
    IF g.run # <<>> THEN g.run
    ELSE IF a \in DOMAIN g.fresh THEN g.fresh[a] ELSE <<>>

\* The input so far is instructions, each optionally preceded by encodings,
\* and only instructions were filtered out.
StillPure(g, entry, c) ==
    /\ g.pure
    /\ \/ InstrLike(entry.type)
       \/ IsEncoding(entry) /\ c.output

\* The positions in w of the records that are neither encodings nor
\* synthesized, and the idx of the last of them (dflt when there is none).
PlainPos(w) == {i \in 1..Len(w) : ~IsEncoding(w[i]) /\ ~IsSynthetic(w[i])}

LastPlain(w, dflt) ==
    IF PlainPos(w) = {} THEN dflt
    ELSE w[CHOOSE i \in PlainPos(w) : \A j \in PlainPos(w) : j <= i].idx

(* ------------------------------ actions --------------------------------- *)
\* One call of parallel_shard_memref on shard s.  The caller hands records
\* only to a shard that was set up and has reported no failure.
Memref(s, p, record_count, last_ts, dec, failAt, openErr) ==
    /\ sh[s].life = "ready"
    /\ sh[s].error = ""
    /\ call.op = "none"
    /\ LET entry == Entry(p.type, p.size, p.addr, sh[s].input_entry_count + 1)
           c == parallel_shard_memref(sh[s], entry, record_count, last_ts,
                                      dec, failAt, openErr)
           g == gh[s]
       IN  /\ sh' = [sh EXCEPT ![s] = c.sh]
           /\ success_' = (success_ /\ ~c.clearedSuccess)
           /\ gh' = [gh EXCEPT ![s] =
                  [components |-> g.components \o c.opened,
                   footers |-> g.footers + CountFooters(c.written),
                   inUnits |-> g.inUnits + record_count,
                   outUnits |-> g.outUnits + UnitsWritten(c.written, record_count),
                   removed |-> IF c.ok /\ ~c.output
                               THEN g.removed + record_count
                               ELSE IF c.ok /\ IsMarker(entry, "RECORD_ORDINAL")
                               THEN 0
                               ELSE g.removed,
                   run |-> IF IsEncoding(entry) THEN Append(g.run, entry)
                           ELSE IF InstrLike(entry.type) THEN <<>>
                           ELSE g.run,
                   pure |-> StillPure(g, entry, c),
                   fresh |-> IF ~StillPure(g, entry, c) THEN <<>>
                             ELSE IF ~InstrLike(entry.type) THEN g.fresh
                             ELSE IF c.output
                             THEN Without(g.fresh, entry.addr)
                             ELSE IF Supplied(g, entry.addr) = <<>>
                             THEN g.fresh
                             ELSE With(g.fresh, entry.addr, Supplied(g, entry.addr)),
                   supplied |-> IF InstrLike(entry.type) /\ g.run # <<>>
                                THEN g.supplied \cup {entry.addr} ELSE g.supplied,
                   emitted |-> g.emitted \cup
                               {c.written[i].idx : i \in
                                   {j \in 1..Len(c.written) : IsEncoding(c.written[j])}},
                   endpoints |-> g.endpoints + CountSynthetic(c.written),
                   lastOut |-> LastPlain(c.written, g.lastOut),
                   encIn |-> IF IsEncoding(entry)
                             THEN With(g.encIn, entry.idx, Payload(entry))
                             ELSE g.encIn,
                   released |-> g.released,
                   passed |-> g.passed + 1,
                   wrote |-> g.wrote + Len(c.written)]]
           /\ call' = [op |-> "memref", shard |-> s, entry |-> entry,
                       count |-> record_count, last_ts |-> last_ts, dec |-> dec,
                       output |-> c.output, ret |-> c.ok,
                       written |-> c.written, invoked |-> c.invoked,
                       opened |-> c.opened, shared |-> c.shared]
    /\ UNCHANGED <<filters_, stop_timestamp_, shard_map_>>

\* What the environment supplies to one call: only what the call reads.
TsInputs(s) ==
    IF sh[s].life = "ready" /\ sh[s].enabled /\ stop_timestamp_ # 0
    THEN Timestamps ELSE {0}

AllAccept == [i \in 1..filters_ |-> TRUE]

DecInputs(s, last_ts) ==
    IF sh[s].life = "ready" /\ sh[s].enabled
       /\ ~(stop_timestamp_ # 0 /\ last_ts >= stop_timestamp_)
    THEN [1..filters_ -> BOOLEAN] ELSE {AllAccept}

OpenInputs(s, p) ==
    IF IsFooter(p) THEN {"", "cannot open"} ELSE {""}

\* The writes the call attempts when none fails: a failure can only hit one
\* of those.
Attempts(s, p, record_count, last_ts, dec) ==
    parallel_shard_memref(sh[s], Entry(p.type, p.size, p.addr, 1),
                          record_count, last_ts, dec, 0, "").attempts

Min(a, b) == IF a < b THEN a ELSE b

ProcessRecord ==
    \E s \in ShardIds :
      /\ sh[s].life = "ready"
      /\ sh[s].error = ""
      /\ sh[s].input_entry_count < MaxRecords
      /\ call.op = "none"
      /\ \E p \in InputPayloads(gh[s]), last_ts \in TsInputs(s) :
          \E record_count \in CountInputs(p), dec \in DecInputs(s, last_ts),
             openErr \in OpenInputs(s, p) :
            \E failAt \in 0..Min(MaxFailPoint,
                                 Attempts(s, p, record_count, last_ts, dec)) :
              Memref(s, p, record_count, last_ts, dec, failAt, openErr)

InitShard == \E s \in ShardIds : ShardInit(s)

\* One call of parallel_shard_exit on the handle parallel_shard_init_stream
\* returned for shard s.  With filters configured and a shard whose sink did
\* not open, the read of filter_shard_data[i] is out of bounds: the call
\* either dies there or goes on with what it read.
Exit(s, exitOk, dies) ==
    /\ sh[s].life \in {"ready", "unopened"}
    /\ call.op = "none"
    /\ LET c == parallel_shard_exit(sh[s], exitOk)
       IN  IF dies
           THEN /\ sh' = [sh EXCEPT ![s].life = "dead"]
                /\ gh' = gh
                /\ call' = [op |-> "exit", shard |-> s, returned |-> FALSE,
                            ret |-> FALSE, invoked |-> <<>>, exitOk |-> exitOk]
           ELSE /\ sh' = [sh EXCEPT ![s] = c.sh]
                /\ gh' = [gh EXCEPT ![s].released =
                              IF sh[s].writer # "null" THEN @ + 1 ELSE @]
                /\ call' = [op |-> "exit", shard |-> s, returned |-> TRUE,
                            ret |-> c.ok, invoked |-> c.invoked,
                            exitOk |-> exitOk]
    /\ UNCHANGED <<filters_, stop_timestamp_, success_, shard_map_>>

ExitShard ==
    \E s \in ShardIds, exitOk \in [1..filters_ -> BOOLEAN] :
      /\ sh[s].life \in {"ready", "unopened"}
      /\ \E dies \in (IF filters_ > Len(sh[s].filter_shard_data)
                      THEN BOOLEAN ELSE {FALSE}) :
           Exit(s, exitOk, dies)

\* One call of print_results: the totals it prints.
Report ==
    /\ call.op = "none"
    /\ shard_map_ # {}
    /\ call' = [op |-> "report",
                input |-> print_results(shard_map_, sh).input,
                output |-> print_results(shard_map_, sh).output]
    /\ UNCHANGED <<filters_, stop_timestamp_, success_, shard_map_, sh, gh>>

\* The worker takes the value the call returned and moves on.
Return ==
    /\ call.op # "none"
    /\ call.op = "exit" => call.returned
    /\ call' = NoCall
    /\ UNCHANGED <<filters_, stop_timestamp_, success_, shard_map_, sh, gh>>

Next == InitShard \/ ProcessRecord \/ ExitShard \/ Report \/ Return

Spec == Init /\ [][Next]_vars

(* ------------------- the two-filter archive scenario -------------------- *)
\* Largest number of entries of the scenario's stream.
MaxScenarioRecords == 5

\* The two filters of the scenario: the first drops every memory access, the
\* second every instruction at an odd address.
ScenarioDec(p) ==
    <<p.type # "READ", ~(InstrLike(p.type) /\ p.addr % 2 = 1)>>

\* The scenario's stream: its chunk footers carry the right ordinals.
ScenarioPayloads(g) ==
    {p \in InputPayloads(g) : IsFooter(p) => p.addr = g.footers}

InitScenario ==
    /\ Init
    /\ filters_ = 2
    /\ stop_timestamp_ = 0

ScenarioInitShard ==
    \E s \in ShardIds : InitStream(s, ".zip", "", [i \in 1..filters_ |-> ""])

ScenarioRecord ==
    \E s \in ShardIds :
      /\ sh[s].life = "ready"
      /\ sh[s].input_entry_count < MaxScenarioRecords
      /\ \E p \in ScenarioPayloads(gh[s]) :
           \E record_count \in CountInputs(p) :
             Memref(s, p, record_count, 0, ScenarioDec(p), 0, "")

NextScenario == ScenarioInitShard \/ ScenarioRecord \/ Return

SpecScenario == InitScenario /\ [][NextScenario]_vars

(* ------------------------ two shards and a report ----------------------- *)
\* Largest number of entries handed to one shard before the report.
MaxReportRecords == 2

ReportShards == {0, 1}

ReportPayloads ==
    {[type |-> "INSTR", size |-> 1, addr |-> 1],
     [type |-> "ENCODING", size |-> 1, addr |-> 7]}

InitReport ==
    /\ filters_ = 1
    /\ stop_timestamp_ \in Timestamps
    /\ success_ = TRUE
    /\ shard_map_ = {}
    /\ sh = [s \in ReportShards |-> NoShard]
    /\ gh = [s \in ReportShards |-> NewGhost]
    /\ call = NoCall

\* Initialize with a plain or an archive sink, the archive failing or not.
ReportInitShard ==
    \E s \in ReportShards, suffix \in {".zip", ".bin"} :
      \E openErr \in (IF suffix = ".zip" THEN {"", "cannot open"} ELSE {""}) :
        InitStream(s, suffix, openErr, [i \in 1..filters_ |-> ""])

ReportRecord ==
    \E s \in ReportShards :
      /\ sh[s].life = "ready"
      /\ sh[s].input_entry_count < MaxReportRecords
      /\ \E p \in ReportPayloads, last_ts \in TsInputs(s) :
          \E record_count \in {IF p.type = "ENCODING" THEN 0 ELSE 1},
             dec \in DecInputs(s, last_ts), failAt \in {0, 1} :
            Memref(s, p, record_count, last_ts, dec, failAt, "")

NextReport == ReportInitShard \/ ReportRecord \/ Report \/ Return

SpecReport == InitReport /\ [][NextReport]_vars

(* ======================= properties of the filter ======================= *)
Last(w) == w[Len(w)]

\* A step that is one call of parallel_shard_memref on shard s.
IsMemrefStep(s) == call.op = "none" /\ call'.op = "memref" /\ call'.shard = s

\* The call wrote its input entry (possibly rewritten), as its last write.
WroteEntry(c) == c.written # <<>> /\ Last(c.written).idx = c.entry.idx

\* The encoding records written directly before the last record of w.
RunBefore(w) ==
    LET n == Len(w)
        starts == {i \in 1..n : \A j \in i..(n - 1) : w[j].type = "ENCODING"}
        first == CHOOSE i \in starts : \A k \in starts : i <= k
    IN  SubSeq(w, first, n - 1)

EncIdx(w) == {w[i].idx : i \in {j \in 1..Len(w) : w[j].type = "ENCODING"}}

DelayedAt(shard, a) ==
    IF a \in DOMAIN shard.delayed_encodings THEN shard.delayed_encodings[a] ELSE <<>>

\* C1: whenever an instruction-like record at address A is written while an
\* encoding for A is known (the pending slot, else the delayed entry for A),
\* the records written immediately before it are exactly that encoding
\* sequence, and afterwards neither the slot nor the map holds an encoding
\* for A.
C1_Step ==
    \A s \in ShardIds :
      (IsMemrefStep(s) /\ WroteEntry(call') /\ InstrLike(call'.entry.type)) =>
        LET a == call'.entry.addr
            known == IF sh[s].last_encoding # <<>>
                     THEN sh[s].last_encoding ELSE DelayedAt(sh[s], a)
        IN  known # <<>> =>
              /\ RunBefore(call'.written) = known
              /\ sh'[s].last_encoding = <<>>
              /\ DelayedAt(sh'[s], a) = <<>>

\* C1: every call that writes an instruction-like record while an encoding
\* for its address is known writes exactly that encoding sequence directly
\* before it and leaves no encoding for the address in the slot or the map.
C1_EncodingPrecedesInstr == [][C1_Step]_vars

\* An instruction written behind the encoding of an earlier, dropped
\* occurrence: the encoding did not arrive right before it.
C1_Witness ==
    /\ call.op = "memref"
    /\ WroteEntry(call)
    /\ InstrLike(call.entry.type)
    /\ RunBefore(call.written) # <<>>
    /\ Last(RunBefore(call.written)).idx + 1 < call.entry.idx

\* C2 as stated: in an input of instructions, each optionally preceded by
\* encodings, of which any subset is filtered out, every surviving occurrence
\* of an instruction for whose address the input has supplied an encoding is
\* written directly behind one.
C2_EveryOccurrenceHasEncoding ==
    (/\ call.op = "memref"
     /\ gh[call.shard].pure
     /\ WroteEntry(call)
     /\ InstrLike(call.entry.type)
     /\ call.entry.addr \in gh[call.shard].supplied)
    => RunBefore(call.written) # <<>>

\* C2 amended: in such an input a surviving occurrence is written directly
\* behind exactly the encodings the input supplied for its address since the
\* last surviving occurrence (the latest ones win), behind none when there
\* are none, and no encoding record is written twice.
C2_Step ==
    \A s \in ShardIds :
      IsMemrefStep(s) =>
        /\ EncIdx(call'.written) \cap gh[s].emitted = {}
        /\ Cardinality(EncIdx(call'.written))
             = Cardinality({i \in 1..Len(call'.written) :
                               call'.written[i].type = "ENCODING"})
        /\ (gh'[s].pure /\ WroteEntry(call') /\ InstrLike(call'.entry.type)) =>
             /\ RunBefore(call'.written) = Supplied(gh[s], call'.entry.addr)
             /\ EncIdx(call'.written) = EncIdx(RunBefore(call'.written))

\* C2 (amended): every call writes each encoding record at most once, and a
\* surviving instruction is written directly behind exactly the encodings
\* supplied for its address since its last surviving occurrence.
C2_EncodingOncePerSupply == [][C2_Step]_vars

\* A second surviving occurrence of an address, written with no encoding
\* because the first one used it.
C2_Witness ==
    /\ call.op = "memref"
    /\ gh[call.shard].pure
    /\ WroteEntry(call)
    /\ InstrLike(call.entry.type)
    /\ call.entry.addr \in gh[call.shard].supplied
    /\ RunBefore(call.written) = <<>>
    /\ gh[call.shard].emitted # {}

IsOrdinal(e) == IsMarker(e, "RECORD_ORDINAL")

\* C3: if K records (each counted as entry_memref_count counted it) were
\* removed by the filters since the previous record-ordinal marker, an
\* ordinal marker is written with its value lowered by K and the shard's
\* removed counter is zero afterwards, with the gate enabled or not.
C3_Step ==
    \A s \in ShardIds :
      (IsMemrefStep(s) /\ IsOrdinal(call'.entry) /\ call'.ret) =>
        /\ WroteEntry(call')
        /\ Last(call'.written).addr = call'.entry.addr - gh[s].removed
        /\ sh'[s].removed_from_prev_chunk = 0

\* C3: every call that processes a record-ordinal marker successfully writes
\* it lowered by the units removed since the previous ordinal marker and
\* leaves removed_from_prev_chunk at zero, whatever the gate's state.
C3_OrdinalLoweredByRemoved == [][C3_Step]_vars

\* An ordinal marker lowered by two or more with the gate disabled.
C3_Witness ==
    /\ call.op = "memref"
    /\ IsOrdinal(call.entry)
    /\ call.ret
    /\ ~sh[call.shard].enabled
    /\ Last(call.written).addr + 2 <= call.entry.addr

\* C4: the input's ordinal markers carry the count of the records before
\* them in the input; every ordinal marker written carries the count of the
\* records before it in the output.
C4_OrdinalIsOutputPosition ==
    (call.op = "memref" /\ IsOrdinal(call.entry) /\ call.ret)
    => Last(call.written).addr = gh[call.shard].outUnits - call.count

ExpectedName(k) == <<"chunk.", 0, 0, 0, k>>

\* C5: with an archive sink the components opened are 0, 1, 2, ... without
\* gaps, component 0 at initialize and k+1 only in the call that wrote the
\* footer of chunk k; a footer written carries the number of chunks closed
\* before it; a footer with another ordinal fails the shard.
C5_Step ==
    \A s \in ShardIds :
      /\ \A i \in 1..Len(gh'[s].components) :
           gh'[s].components[i] = ExpectedName(i - 1)
      /\ gh'[s].components # gh[s].components =>
           \/ /\ call'.op = "init"
              /\ gh[s].components = <<>>
              /\ Len(gh'[s].components) = 1
           \/ /\ IsMemrefStep(s)
              /\ WroteEntry(call')
              /\ IsFooter(call'.entry)
              /\ gh'[s].components =
                   Append(gh[s].components, ExpectedName(call'.entry.addr + 1))
      /\ IsMemrefStep(s) =>
           /\ \A i \in 1..Len(call'.written) :
                IsFooter(call'.written[i]) =>
                  /\ call'.written[i].addr = gh[s].footers
                  /\ sh[s].writer = "archive"
           /\ sh[s].chunk_ordinal = gh[s].footers
           /\ (IsFooter(call'.entry) /\ call'.entry.addr # gh[s].footers) =>
                /\ ~call'.ret
                /\ sh'[s].error # ""
                /\ gh'[s].components = gh[s].components

\* C5: every step keeps the opened components numbered 0, 1, 2, ..., opens
\* the next one only in the call that wrote a footer, writes only footers
\* that carry the number of chunks closed, and fails on any other footer.
C5_ChunkOrdinals == [][C5_Step]_vars

\* Two chunks closed, three components opened.
C5_Witness ==
    \E s \in ShardIds : gh[s].footers = 2 /\ Len(gh[s].components) = 3

Ready(s) == sh[s].life = "ready"

Synthesized(w) == {i \in 1..Len(w) : w[i].idx = 0}

\* What C6 says of every step but the marker at the transition: the flag
\* only falls, it falls at the first record whose timestamp has reached the
\* threshold, no marker is synthesized at any other step, and from that
\* record on no filter runs and nothing is dropped.
C6_Common(s) ==
    /\ (Ready(s) /\ sh'[s].enabled # sh[s].enabled) =>
           (sh[s].enabled /\ ~sh'[s].enabled)
    /\ IsMemrefStep(s) =>
         /\ sh[s].enabled => (sh'[s].enabled <=> call'.last_ts < stop_timestamp_)
         /\ ~(sh[s].enabled /\ ~sh'[s].enabled) =>
              Synthesized(call'.written) = {}
         /\ ~sh'[s].enabled =>
              /\ call'.invoked = <<>>
              /\ call'.output
              /\ call'.ret => WroteEntry(call') \/ IsFooter(call'.entry)
                              \/ IsEncoding(call'.entry)
         /\ gh'[s].endpoints <= 1

\* C6 as stated: at the step where the flag falls exactly one filter-endpoint
\* marker is written, before anything written for the record.
C6_OriginalStep ==
    \A s \in ShardIds :
      stop_timestamp_ # 0 =>
        /\ C6_Common(s)
        /\ (IsMemrefStep(s) /\ sh[s].enabled /\ ~sh'[s].enabled) =>
             /\ Synthesized(call'.written) = {1}
             /\ call'.written[1] = filter_boundary_entry

\* C6 (as stated): every step obeys the one-way gate and the step at which
\* the flag falls writes exactly one filter-endpoint marker, first.
C6_ExactlyOneEndpointWritten == [][C6_OriginalStep]_vars

\* C6 amended: at that step the marker is the first write the call attempts;
\* it is written exactly once, first, unless that write fails, and then the
\* call fails having written nothing while the flag has fallen all the same.
C6_AmendedStep ==
    \A s \in ShardIds :
      stop_timestamp_ # 0 =>
        /\ C6_Common(s)
        /\ (IsMemrefStep(s) /\ sh[s].enabled /\ ~sh'[s].enabled) =>
             \/ /\ Synthesized(call'.written) = {1}
                /\ call'.written[1] = filter_boundary_entry
             \/ /\ call'.written = <<>>
                /\ ~call'.ret
                /\ sh'[s].error # ""
                /\ ~success_'

\* C6 (amended): every step obeys the one-way gate, and the step at which the
\* flag falls either writes exactly one filter-endpoint marker first or fails
\* on that write with nothing written.
C6_GateOneWay == [][C6_AmendedStep]_vars

\* A disabled shard whose latest call wrote the marker and then its record.
C6_Witness ==
    /\ call.op = "memref"
    /\ stop_timestamp_ # 0
    /\ ~sh[call.shard].enabled
    /\ Len(call.written) >= 2
    /\ call.written[1] = filter_boundary_entry
    /\ WroteEntry(call)

\* C7: while a shard is enabled every configured filter is invoked exactly
\* once per record, in configured order and on its own state, also after a
\* rejection; the record is kept iff all accept; with no filter all are kept.
C7_ConjunctiveFiltering ==
    (call.op = "memref" /\ sh[call.shard].enabled) =>
      /\ call.invoked = [i \in 1..filters_ |-> [filter |-> i, data |-> i]]
      /\ call.output <=> (\A i \in 1..filters_ : call.dec[i])
      /\ filters_ = 0 => call.output
      /\ ~call.output => call.written = <<>>
      /\ (call.output /\ call.ret) =>
           \/ WroteEntry(call)
           \/ /\ IsEncoding(call.entry)
              /\ Last(sh[call.shard].last_encoding) = call.entry

\* The first filter rejected, the second accepted, and both were invoked.
C7_Witness ==
    /\ call.op = "memref"
    /\ sh[call.shard].enabled
    /\ filters_ = 2
    /\ ~call.dec[1] /\ call.dec[2]
    /\ Len(call.invoked) = 2
    /\ ~call.output

\* C8: with an archive sink a call in which the filters drop an
\* instruction-like record fails with a non-empty error and writes nothing.
C8_ArchiveInstrDropFails ==
    (/\ call.op = "memref"
     /\ sh[call.shard].writer = "archive"
     /\ InstrLike(call.entry.type)
     /\ call.invoked # <<>>
     /\ \E i \in 1..filters_ : ~call.dec[i])
    => /\ ~call.ret
       /\ sh[call.shard].error # ""
       /\ call.written = <<>>

\* A not-fetched instruction dropped by the filters with an archive sink.
C8_Witness ==
    /\ call.op = "memref"
    /\ sh[call.shard].writer = "archive"
    /\ call.entry.type = "INSTR_NO_FETCH"
    /\ \E i \in 1..filters_ : ~call.dec[i]
    /\ ~call.ret

\* C10: every step that ends in a fatal shard error leaves the global
\* success flag false.
C10_FatalErrorClearsSuccess ==
    (call.op \in {"init", "memref"} /\ sh[call.shard].error # "") => ~success_

\* C9 as stated: in the scenario every record is processed successfully.
C9_EveryRecordSucceeds == call.op = "memref" => call.ret

OddInstr(e) == InstrLike(e.type) /\ e.addr % 2 = 1

\* C9 amended: in the scenario every record but an odd-address instruction is
\* processed successfully, and that one fails the shard with the
\* instruction-removal error and writes nothing; memory accesses are written
\* nowhere; an instruction written has an even address and stands directly
\* behind the encodings that arrived since the instruction before it; every
\* record lands in the component of the chunks closed so far, and the next
\* component is opened in the call that writes a footer and in no other.
C9_Step ==
    \A s \in ShardIds :
      IsMemrefStep(s) =>
        LET e == call'.entry
            w == call'.written
        IN  /\ call'.ret <=> ~OddInstr(e)
            /\ ~call'.ret =>
                 /\ w = <<>>
                 /\ sh'[s].error =
                      "Removing instructions from archive output is not yet supported"
            /\ e.type = "READ" => w = <<>>
            /\ \A i \in 1..Len(w) : ~OddInstr(w[i]) /\ w[i].type # "READ"
            /\ (call'.ret /\ InstrLike(e.type)) => w = gh[s].run \o <<e>>
            /\ (call'.ret /\ ~InstrLike(e.type) /\ e.type \notin {"READ", "ENCODING"}) =>
                 /\ Len(w) = 1
                 /\ w[1].idx = e.idx
                 /\ ~IsOrdinal(e) => Payload(w[1]) = Payload(e)
            /\ Last(gh[s].components) = ExpectedName(gh[s].footers)
            /\ call'.opened = IF IsFooter(e)
                              THEN <<ExpectedName(e.addr + 1)>> ELSE <<>>

\* C9 (amended): every call of the scenario succeeds unless its record is an
\* odd-address instruction, writes only even-address instructions behind
\* their encodings and no memory access, and opens the next component exactly
\* when it writes a footer.
C9_ScenarioOutput == [][C9_Step]_vars

\* After a footer, in component 0001: an even-address instruction written
\* behind its encoding.
C9_Witness ==
    /\ call.op = "memref"
    /\ gh[call.shard].components = <<ExpectedName(0), ExpectedName(1)>>
    /\ InstrLike(call.entry.type)
    /\ Len(call.written) = 2
    /\ call.written[1].type = "ENCODING"
    /\ call.written[2].addr % 2 = 0

\* The first filter whose parallel_shard_init left an error string.
FirstFailed(initErr) ==
    CHOOSE i \in DOMAIN initErr :
        initErr[i] # "" /\ \A j \in DOMAIN initErr : initErr[j] # "" => i <= j

C11_Step ==
    \A s \in ShardIds :
      /\ (sh[s].life # "none" /\ sh[s].error # "") => sh'[s].error = sh[s].error
      /\ (/\ call'.op = "init"
          /\ call.op = "none"
          /\ sh'[s].life = "ready"
          /\ \E i \in DOMAIN call'.initErr : call'.initErr[i] # "")
         => sh'[s].error = "Failure in initializing filter function "
                            \o call'.initErr[FirstFailed(call'.initErr)]

\* C11: once a shard's error is non-empty no step changes it, and after an
\* initialize in which filters failed the error is that of the first filter
\* that failed.
C11_FirstErrorRetained == [][C11_Step]_vars

\* The bits of v other than the flag bit.
OtherBits(v, flag) == <<v % flag, v \div (2 * flag)>>

\* C12: every filetype marker written is the input marker with the bimodal
\* flag set and every other bit unchanged when a stop timestamp is configured,
\* gate fired or not, and the input marker unchanged when none is.
C12_FiletypeFlag ==
    call.op = "memref" =>
      \A i \in 1..Len(call.written) :
        IsMarker(call.written[i], "FILETYPE") =>
          LET w == call.written[i]
              e == call.entry
              flag == OFFLINE_FILE_TYPE_BIMODAL_FILTERED_WARMUP
          IN  /\ w.idx = e.idx
              /\ IsMarker(e, "FILETYPE")
              /\ stop_timestamp_ # 0 =>
                   /\ BitSet(w.addr, flag)
                   /\ OtherBits(w.addr, flag) = OtherBits(e.addr, flag)
              /\ stop_timestamp_ = 0 => w.addr = e.addr

\* A filetype marker with the flag clear, written with the flag set by a
\* shard whose gate has not fired.
C12_Witness ==
    /\ call.op = "memref"
    /\ IsMarker(call.entry, "FILETYPE")
    /\ sh[call.shard].enabled
    /\ stop_timestamp_ # 0
    /\ ~BitSet(call.entry.addr, OFFLINE_FILE_TYPE_BIMODAL_FILTERED_WARMUP)
    /\ Len(call.written) = 1
    /\ BitSet(call.written[1].addr, OFFLINE_FILE_TYPE_BIMODAL_FILTERED_WARMUP)

EncPos(w) == {i \in 1..Len(w) : IsEncoding(w[i])}

\* No encoding record is written twice, and none in the call it arrives in.
EncodingsOnce(s) ==
    LET w == call'.written
    IN  /\ EncIdx(w) \cap gh[s].emitted = {}
        /\ Cardinality(EncIdx(w)) = Cardinality(EncPos(w))
        /\ call'.entry.idx \notin EncIdx(w)

\* Every encoding of w stands before another encoding or an instruction.
EncodingsLeadToInstr(w) ==
    \A i \in EncPos(w) :
       /\ i < Len(w)
       /\ IsEncoding(w[i + 1]) \/ InstrLike(w[i + 1].type)

C13_OriginalStep ==
    \A s \in ShardIds :
      IsMemrefStep(s) =>
        /\ EncodingsOnce(s)
        /\ EncodingsLeadToInstr(call'.written)

\* C13 (as stated): every call writes each encoding record at most once and
\* follows every run of encodings it writes by an instruction-like record.
C13_EncodingsHaveConsumer == [][C13_OriginalStep]_vars

C13_AmendedStep ==
    \A s \in ShardIds :
      IsMemrefStep(s) =>
        /\ EncodingsOnce(s)
        /\ call'.ret => EncodingsLeadToInstr(call'.written)
        /\ (~call'.ret /\ EncPos(call'.written) # {}) =>
             /\ \A i \in 1..Len(call'.written) :
                  IsEncoding(call'.written[i]) \/ IsSynthetic(call'.written[i])
             /\ InstrLike(call'.entry.type)
             /\ sh'[s].error = "Failed to write to output file"
             /\ ~success_'

\* C13 (amended): every call writes each encoding record at most once; a call
\* that succeeds follows every run of encodings it writes by an
\* instruction-like record, and a call that wrote encodings and fails was
\* processing an instruction, failed on a write and wrote no instruction.
C13_EncodingsBeforeInstrOrFailure == [][C13_AmendedStep]_vars

\* A run of two encodings written and followed by their instruction.
C13_Witness ==
    /\ call.op = "memref"
    /\ call.ret
    /\ InstrLike(call.entry.type)
    /\ Len(call.written) = 3
    /\ IsEncoding(call.written[1]) /\ IsEncoding(call.written[2])
    /\ call.written[3].idx = call.entry.idx

\* A call in which the gate's marker was written.
MarkerStep(s) == IsMemrefStep(s) /\ Synthesized(call'.written) # {}

\* C14 (as stated): in the call that writes the filter-endpoint marker the
\* input counter grows by the record and the marker, and the output counter
\* by the records written other than the marker.
C14_MarkerInInputTallyOnly ==
    [][\A s \in ShardIds :
         MarkerStep(s) =>
           /\ sh'[s].input_entry_count = sh[s].input_entry_count + 2
           /\ sh'[s].output_entry_count =
                sh[s].output_entry_count + Len(call'.written) - 1]_vars

\* C14 (amended): in the call that writes the filter-endpoint marker the
\* input counter grows by one, for the record alone, and the output counter
\* by everything written, the marker included.
C14_MarkerInOutputTallyOnly ==
    [][\A s \in ShardIds :
         MarkerStep(s) =>
           /\ sh'[s].input_entry_count = sh[s].input_entry_count + 1
           /\ sh'[s].output_entry_count =
                sh[s].output_entry_count + Len(call'.written)]_vars

\* The first record of a shard fires the gate: one record in, the marker and
\* the record out.
C14_Witness ==
    /\ call.op = "memref"
    /\ Synthesized(call.written) = {1}
    /\ Len(call.written) = 2
    /\ sh[call.shard].input_entry_count = 1
    /\ sh[call.shard].output_entry_count = 2

\* C15: every assignment a call makes to the registry or to the success flag
\* is made with the registry lock held, and a call that processes a record
\* makes none, so it never needs the lock.
C15_SharedWritesUnderLock ==
    call.op \in {"init", "memref"} =>
      /\ \A i \in 1..Len(call.shared) : call.shared[i].locked
      /\ call.op = "memref" => call.shared = <<>>

C16_Step ==
    \A s \in ShardIds :
      IsMemrefStep(s) =>
        LET w == call'.written
            e == call'.entry
        IN  \* the records other than encodings and the marker: in input order
            /\ \A i \in PlainPos(w) :
                 /\ w[i].idx > gh[s].lastOut
                 /\ w[i].idx <= e.idx
                 /\ \A j \in PlainPos(w) : i < j => w[i].idx < w[j].idx
            \* an encoding: written later than it arrived, in a call on an
            \* instruction, with nothing but encodings between the two
            /\ \A i \in EncPos(w) :
                 /\ w[i].idx < e.idx
                 /\ InstrLike(e.type)
                 /\ \A j \in (i + 1)..Len(w) :
                      \/ IsEncoding(w[j]) /\ w[i].idx < w[j].idx
                      \/ w[j].idx = e.idx

\* C16: the records a shard writes, encodings and the filter-endpoint marker
\* left out, are input records in input order; an encoding is written only
\* later than it arrived, directly before an instruction-like record.
C16_OutputInInputOrder == [][C16_Step]_vars

\* The third input record written behind the encoding that arrived first,
\* the instruction between them having been dropped.
C16_Witness ==
    /\ call.op = "memref"
    /\ call.entry.idx = 3
    /\ Len(call.written) = 2
    /\ IsEncoding(call.written[1]) /\ call.written[1].idx = 1
    /\ gh[call.shard].lastOut = 3

\* w is input entry e, but for the flag bit of a filetype marker and the
\* value of a record-ordinal marker.
SameButRewritten(w, e) ==
    /\ w.idx = e.idx
    /\ w.type = e.type
    /\ w.size = e.size
    /\ \/ w.addr = e.addr
       \/ /\ IsMarker(e, "FILETYPE")
          /\ OtherBits(w.addr, OFFLINE_FILE_TYPE_BIMODAL_FILTERED_WARMUP)
               = OtherBits(e.addr, OFFLINE_FILE_TYPE_BIMODAL_FILTERED_WARMUP)
       \/ IsOrdinal(e)

C17_Step ==
    \A s \in ShardIds :
      IsMemrefStep(s) =>
        \A i \in 1..Len(call'.written) :
          LET w == call'.written[i]
          IN  \/ w = filter_boundary_entry
              \/ SameButRewritten(w, call'.entry)
              \/ /\ w.idx \in DOMAIN gh[s].encIn
                 /\ Payload(w) = gh[s].encIn[w.idx]

\* C17: every record a call writes is the synthetic filter-endpoint marker,
\* or its input record with at most the flag bit of a filetype value or the
\* value of an ordinal marker changed, or an earlier encoding record of the
\* input unchanged.
C17_OnlyTwoFieldsRewritten == [][C17_Step]_vars

\* An ordinal marker written with another value than the input's by a shard
\* whose gate is open.
C17_Witness ==
    /\ call.op = "memref"
    /\ IsOrdinal(call.entry)
    /\ sh[call.shard].enabled
    /\ Len(call.written) = 1
    /\ call.written[1].addr # call.entry.addr
    /\ call.written[1].size = "RECORD_ORDINAL"

\* The error a footer or a dropped ordinal marker is refused with, the checks
\* taken in their order; "" when the record passes them all.
Refusal(s, e, output) ==
    IF IsOrdinal(e)
    THEN IF ~output THEN "Removing ordinal marker is not supported" ELSE ""
    ELSE IF ~output THEN "Removing chunk footers is not supported"
    ELSE IF sh[s].writer # "archive" THEN "Chunks found in non-archive output"
    ELSE IF e.addr # gh[s].footers
    THEN "Chunk ordinal mismatch: found " \o ToString(e.addr)
         \o " expected " \o ToString(gh[s].footers)
    ELSE ""

\* The call left the chunk ordinal alone and opened no component.
ChunkUntouched(s) ==
    /\ sh'[s].chunk_ordinal = sh[s].chunk_ordinal
    /\ call'.opened = <<>>

\* The footer went out as it came in, the ordinal moved on by one and the
\* next component was opened, or could not be and the call failed.
FooterPassed(s, e, w) ==
    /\ Last(w) = e
    /\ sh'[s].chunk_ordinal = sh[s].chunk_ordinal + 1
    /\ \/ call'.ret /\ call'.opened = <<ExpectedName(e.addr + 1)>>
       \/ ~call'.ret /\ sh'[s].error # "" /\ call'.opened = <<>>

C18_OriginalStep ==
    \A s \in ShardIds :
      (IsMemrefStep(s) /\ (IsFooter(call'.entry) \/ IsOrdinal(call'.entry))) =>
        LET e == call'.entry
            w == call'.written
            r == Refusal(s, e, call'.output)
        IN  /\ r # "" =>
                 /\ ~call'.ret
                 /\ sh'[s].error = r
                 /\ w = <<>>
                 /\ ChunkUntouched(s)
            /\ (r = "" /\ IsFooter(e)) =>
                 /\ w = <<e>>
                 /\ FooterPassed(s, e, w)

\* C18 (as stated): a footer or ordinal marker that is refused fails the
\* call with the error of the first check it fails, nothing written, the chunk
\* ordinal unchanged and no component opened; a footer that passes is written
\* unmodified, the ordinal incremented and the next component opened.
C18_RefusalWritesNothing == [][C18_OriginalStep]_vars

WriteFailed(s) ==
    ~call'.ret /\ sh'[s].error = "Failed to write to output file" /\ ~success_'

C18_AmendedStep ==
    \A s \in ShardIds :
      (IsMemrefStep(s) /\ (IsFooter(call'.entry) \/ IsOrdinal(call'.entry))) =>
        LET e == call'.entry
            w == call'.written
            r == Refusal(s, e, call'.output)
            fired == sh[s].enabled /\ ~sh'[s].enabled
        IN  /\ r # "" =>
                 /\ ~call'.ret
                 /\ ChunkUntouched(s)
                 /\ \/ sh'[s].error = r
                       /\ w = IF fired THEN <<filter_boundary_entry>> ELSE <<>>
                    \/ fired /\ WriteFailed(s) /\ w = <<>>
            /\ (r = "" /\ IsFooter(e)) =>
                 \/ /\ w = (IF fired THEN <<filter_boundary_entry>> ELSE <<>>) \o <<e>>
                    /\ FooterPassed(s, e, w)
                 \/ /\ WriteFailed(s)
                    /\ ChunkUntouched(s)
                    /\ \A i \in 1..Len(w) : w[i] = filter_boundary_entry

\* C18 (amended): as stated, except that the call in which the gate fires has
\* written the filter-endpoint marker before the refusal, and that a failed
\* write fails the call with the footer unwritten and the chunk untouched.
C18_RefusalWritesNoRecord == [][C18_AmendedStep]_vars

\* A footer whose ordinal is not the tracked one, refused with both in the
\* error.
C18_Witness ==
    /\ call.op = "memref"
    /\ IsFooter(call.entry)
    /\ call.entry.addr = 1
    /\ ~call.ret
    /\ sh[call.shard].error = "Chunk ordinal mismatch: found 1 expected 0"
    /\ call.written = <<>>

\* C19: a finalize of a shard invokes every configured filter's finalize
\* once, in configured order, fails exactly when one of them failed, and
\* leaves the shard with its sink released, once.
C19_FinalizeRunsAll ==
    call.op = "exit" =>
      /\ call.returned
      /\ Len(call.invoked) = filters_
      /\ \A i \in 1..filters_ : call.invoked[i].filter = i
      /\ call.ret <=> (\A i \in 1..filters_ : call.exitOk[i])
      /\ sh[call.shard].writer = "null"
      /\ gh[call.shard].released = 1

\* The same of a shard whose initialize opened its sink.
C19_FinalizeOfOpenedShard ==
    (call.op = "exit" /\ call.shard \in shard_map_) =>
      /\ call.returned
      /\ call.invoked = [i \in 1..filters_ |-> [filter |-> i, data |-> i]]
      /\ call.ret <=> (\A i \in 1..filters_ : call.exitOk[i])
      /\ sh[call.shard].writer = "null"
      /\ gh[call.shard].released = 1

\* The shards parallel_shard_init_stream was called for.
Initialized == {s \in DOMAIN sh : sh[s].life # "none"}

\* The sum of one of the per-shard tallies over the initialized shards.
TotalOf(field) ==
    LET F[S \in SUBSET DOMAIN gh] ==
            IF S = {} THEN 0
            ELSE LET x == CHOOSE y \in S : TRUE
                 IN  gh[x][field] + F[S \ {x}]
    IN  F[Initialized]

====
